---- MODULE Spec2Model ----
(***************************************************************************)
(* Model of week1/claude_solution.py: the website summarizer that scrapes  *)
(* a page, builds a two-message prompt, calls a local chat-completion      *)
(* endpoint and prints the summary.                                        *)
(*                                                                         *)
(* The two collaborators (fetch_website_contents, the OpenAI client) are   *)
(* the environment: each blocking call either returns a value or raises,   *)
(* chosen nondeterministically from small sets. A raise is either an       *)
(* instance of Exception, which the except clauses of main() catch, or     *)
(* an instance of another class deriving from BaseException, which leaves  *)
(* main() and ends the process; the interpreter's traceback goes to        *)
(* stderr, which is not modelled.                                          *)
(* Python values are tagged records: a str is [type |-> "str", value],     *)
(* None is [type |-> "NoneType"], an exception is [type, msg, mro].        *)
(* A printed line is a record naming the print statement and the values    *)
(* interpolated into it.                                                   *)
(***************************************************************************)
EXTENDS Integers, Sequences, FiniteSets

VARIABLES
    sys_argv,           \* sys.argv: program name followed by the arguments
    pc,                 \* position of the single thread inside main()
    urls_to_summarize,  \* main: the resolved URL list
    client,             \* main: the client handle (None until constructed)
    idx,                \* main: number of loop items taken so far
    website_content,    \* summarize_website: the content fetched last
    stdout,             \* the lines printed so far
    exit_code,          \* <<>> while running, <<status>> once the process ended
    clients_made,       \* number of calls of create_ollama_client
    connect_results,    \* what each call of create_ollama_client did
    fetch_calls,        \* calls of fetch_website_contents: [pos, url]
    fetch_results,      \* what each fetch call did: [pos, ok, value | exc]
    requests,           \* chat-completion calls: [pos, client, model, messages]
    infer_results       \* what each chat-completion call did

vars == <<sys_argv, pc, urls_to_summarize, client, idx, website_content, stdout,
          exit_code, clients_made, connect_results, fetch_calls, fetch_results, requests,
          infer_results>>

----------------------------------------------------------------------------
(* Bounds and input sets *)

MaxArgs == 2

PROGRAM_NAME == "week1/claude_solution.py"

ArgUrls == {"https://example.com", "https://cnn.com"}

RECURSIVE SeqsUpTo(_, _)
SeqsUpTo(S, n) ==
    IF n = 0 THEN {<<>>}
    ELSE LET shorter == SeqsUpTo(S, n - 1)
         IN  shorter \cup {Append(s, x) : s \in shorter, x \in S}

ArgvSet == {<<PROGRAM_NAME>> \o a : a \in SeqsUpTo(ArgUrls, MaxArgs)}

----------------------------------------------------------------------------
(* Python values *)

PyNone == [type |-> "NoneType"]

PyStr(s) == [type |-> "str", value |-> s]

\* an int the interpreter can convert to a C long
PyInt(n) == [type |-> "int", value |-> n, fits_long |-> TRUE]

\* an int outside the range of a C long, such as 2**63
PyBigInt == [type |-> "int", fits_long |-> FALSE]

\* an instance of a class deriving from Exception, with the classes it is an
\* instance of
PyExc(t, m) ==
    [type |-> t, msg |-> m, mro |-> {t, "Exception", "BaseException", "object"}]

\* an instance of a class deriving from BaseException and not from Exception
PyBaseExc(t, m) == [type |-> t, msg |-> m, mro |-> {t, "BaseException", "object"}]

\* an instance of a class deriving from parent, itself deriving from
\* BaseException and not from Exception
PyBaseSubExc(t, parent, m) ==
    [type |-> t, msg |-> m, mro |-> {t, parent, "BaseException", "object"}]

\* SystemExit(code): code is any Python value
PySystemExit(code, m) ==
    [type |-> "SystemExit", msg |-> m, mro |-> {"SystemExit", "BaseException", "object"},
     code |-> code]

\* isinstance(e, Exception): what `except Exception` catches
IsException(e) == "Exception" \in e.mro

\* the status of a process ended by the uncaught e. An instance of SystemExit:
\* 0 for the code None, the low eight bits of an int code that fits a C long,
\* 255 for an int code that does not, 1 for any other code. An instance of
\* KeyboardInterrupt itself: death by SIGINT. Anything else, an instance of a
\* subclass of KeyboardInterrupt included: a traceback and 1
ExitStatus(e) ==
    IF "SystemExit" \in e.mro
    THEN IF e.code.type = "NoneType" THEN 0
         ELSE IF e.code.type = "int"
              THEN IF e.code.fits_long THEN e.code.value % 256 ELSE 255
              ELSE 1
    ELSE IF e.type = "KeyboardInterrupt" THEN -2
    ELSE 1

\* str(x), as print() and an f-string apply it
Str(x) == IF x.type = "NoneType" THEN "None"
          ELSE IF x.type = "str" THEN x.value
          ELSE x.msg

----------------------------------------------------------------------------
(* Module constants *)

OLLAMA_BASE_URL == "http://localhost:11434/v1"

MODEL == "llama3.2"

SYSTEM_PROMPT ==
    "\nYou are a snarky assistant that analyzes the contents of a website,\n"
    \o "and provides a short, snarky, humorous summary, ignoring text that might be navigation related.\n"
    \o "Respond in markdown. Do not wrap the markdown in a code block - respond just with the markdown.\n"

USER_PROMPT_PREFIX ==
    "\nHere are the contents of a website.\n"
    \o "Provide a short summary of this website.\n"
    \o "If it includes news or announcements, then summarize these too.\n\n"

default_urls == <<"https://edwarddonner.com", "https://anthropic.com", "https://cnn.com">>

----------------------------------------------------------------------------
(* What the environment can do *)

\* values fetch_website_contents can return
Contents == {"", "Hello world"}

\* raises of any call that are not instances of Exception
Interrupts == {PyBaseExc("KeyboardInterrupt", "ctrl-c"),
               PyBaseSubExc("UserAbort", "KeyboardInterrupt", "abort"),
               PyBaseExc("CancelledError", "cancelled"),
               PyBaseExc("BaseExceptionGroup", "grp (1 sub-exception)"),
               PySystemExit(PyInt(1), "1"),
               PySystemExit(PyInt(256), "256"),
               PySystemExit(PyInt(-1), "-1"),
               PySystemExit(PyBigInt, "9223372036854775808"),
               PySystemExit(PyNone, ""),
               PySystemExit(PyStr("boom"), "boom")}

\* exceptions fetch_website_contents can raise
FetchErrors == {PyExc("ConnectionError", "fetch failed")}

\* exceptions OpenAI(...) can raise
ConnectErrors == {PyExc("OpenAIError", "cannot configure client")}

\* exceptions client.chat.completions.create can raise
InferErrors == {PyExc("APIConnectionError", "Connection error."),
                PyExc("InternalServerError", "Error code: 500")}

Choice(c) == [message |-> [role |-> "assistant", content |-> c]]

\* responses client.chat.completions.create can return
Responses == {[choices |-> <<>>],
              [choices |-> <<Choice(PyNone)>>],
              [choices |-> <<Choice(PyStr("# Summary\nHello."))>>],
              [choices |-> <<Choice(PyStr("# Summary\nHello.")), Choice(PyStr("second"))>>]}

----------------------------------------------------------------------------
(* Printed lines *)

Line(l) == [line |-> l]

ErrorLine(url, e) == [line |-> "error_summarizing", url |-> url, cause |-> Str(e)]

SummaryLines(url, summary) ==
    << [line |-> "summary_of", url |-> url],
       [line |-> "summary_text", text |-> Str(summary)],
       Line("blank") >>

ClosingLines ==
    << Line("separator"), Line("done"), Line("benefits_header"),
       Line("benefit_free"), Line("benefit_privacy"), Line("benefit_offline"),
       Line("tradeoffs_header"), Line("tradeoff_power"), Line("tradeoff_speed") >>

ConnectErrorLines(e) ==
    << [line |-> "error_connecting", cause |-> Str(e)],
       Line("make_sure"), Line("hint_visit"), Line("hint_serve"),
       [line |-> "hint_pull", model |-> MODEL] >>

----------------------------------------------------------------------------
(* Pure functions *)

create_ollama_client ==
    [type |-> "OpenAI", base_url |-> OLLAMA_BASE_URL, api_key |-> "ollama"]

\* mutant: the two messages in the wrong order
create_messages_swapped(content) ==
    << [role |-> "user", content |-> USER_PROMPT_PREFIX \o content],
       [role |-> "system", content |-> SYSTEM_PROMPT] >>

create_messages(content) ==
    << [role |-> "system", content |-> SYSTEM_PROMPT],
       [role |-> "user", content |-> USER_PROMPT_PREFIX \o content] >>

\* mutant: the last choice instead of the first
LastChoiceContent(response) == response.choices[Len(response.choices)].message.content

\* response.choices[0].message.content
FirstChoiceContent(response) == response.choices[1].message.content

\* mutant: the last argument instead of the first
ResolveUrlsLastArg(av) == IF Len(av) > 1 THEN <<av[Len(av)]>> ELSE default_urls

\* main: the URL list chosen from the command line
ResolveUrls(av) == IF Len(av) > 1 THEN <<av[2]>> ELSE default_urls

----------------------------------------------------------------------------
Init ==
    /\ sys_argv \in ArgvSet
    /\ pc = "Init"
    /\ urls_to_summarize = <<>>
    /\ client = PyNone
    /\ idx = 0
    /\ website_content = PyNone
    /\ stdout = <<>>
    /\ exit_code = <<>>
    /\ clients_made = 0
    /\ connect_results = <<>>
    /\ fetch_calls = <<>>
    /\ fetch_results = <<>>
    /\ requests = <<>>
    /\ infer_results = <<>>

\* main, lines 99-112
ResolveArgs ==
    /\ pc = "Init"
    /\ urls_to_summarize' = ResolveUrls(sys_argv)
    /\ stdout' = IF Len(sys_argv) > 1 THEN stdout
                 ELSE Append(stdout, Line("no_url_provided"))
    /\ pc' = "Connecting"
    /\ UNCHANGED <<sys_argv, client, idx, website_content, exit_code, clients_made, connect_results,
                   fetch_calls, fetch_results, requests, infer_results>>

\* an exception no except clause of main() catches: it leaves main() and the
\* interpreter ends the process
Uncaught(e) ==
    /\ ~IsException(e)
    /\ exit_code' = <<ExitStatus(e)>>
    /\ pc' = "Aborted"
    /\ UNCHANGED <<stdout, idx>>

\* main, lines 115-118: the construction succeeds
ConnectOk ==
    /\ pc = "Connecting"
    /\ clients_made' = clients_made + 1
    /\ connect_results' = Append(connect_results, [ok |-> TRUE])
    /\ client' = create_ollama_client
    /\ stdout' = stdout \o << [line |-> "connected", base_url |-> OLLAMA_BASE_URL],
                              [line |-> "using_model", model |-> MODEL] >>
    /\ pc' = "Loop"
    /\ UNCHANGED <<sys_argv, urls_to_summarize, idx, website_content, exit_code,
                   fetch_calls, fetch_results, requests, infer_results>>

\* mutant: the except clause without its sys.exit(1)
ConnectFailedNoExit(e) ==
    /\ IsException(e)
    /\ stdout' = stdout \o ConnectErrorLines(e)
    /\ pc' = "Loop"
    /\ UNCHANGED <<idx, exit_code>>

\* main, lines 119-125: `except Exception as e` of the construction
ConnectFailed(e) ==
    /\ IsException(e)
    /\ stdout' = stdout \o ConnectErrorLines(e)
    /\ exit_code' = <<1>>
    /\ pc' = "Exited"
    /\ UNCHANGED idx

\* main, lines 115-125: the construction raised
ConnectRaises ==
    /\ pc = "Connecting"
    /\ clients_made' = clients_made + 1
    /\ \E e \in ConnectErrors \cup Interrupts :
        /\ connect_results' = Append(connect_results, [ok |-> FALSE, exc |-> e])
        /\ ConnectFailed(e) \/ Uncaught(e)
    /\ UNCHANGED <<sys_argv, urls_to_summarize, client, website_content,
                   fetch_calls, fetch_results, requests, infer_results>>

\* mutant: the list walked from its end
IterItemReversed(urls, k) == urls[Len(urls) + 1 - k]

\* main, line 128: the item the for loop hands out at its k-th step
IterItem(urls, k) == urls[k]

\* mutant: the loop left after its first item
LoopExhaustedEarly == idx >= 1 \/ idx = Len(urls_to_summarize)

\* main, line 128: the for loop has no item left
LoopExhausted == idx = Len(urls_to_summarize)

\* the URL of the iteration in progress
url == IterItem(urls_to_summarize, idx)

\* mutant: a per-URL failure aborts the run
UrlFailedAborts(e) ==
    /\ IsException(e)
    /\ stdout' = Append(stdout, [line |-> "error_summarizing",
                                 url |-> IterItem(urls_to_summarize, idx), cause |-> Str(e)])
    /\ pc' = "Exited"
    /\ exit_code' = <<1>>
    /\ UNCHANGED idx

\* mutant: a failed URL is handed to the loop again
UrlFailedRetries(e) ==
    /\ IsException(e)
    /\ stdout' = Append(stdout, [line |-> "error_summarizing",
                                 url |-> IterItem(urls_to_summarize, idx), cause |-> Str(e)])
    /\ pc' = "Loop"
    /\ idx' = idx - 1
    /\ UNCHANGED exit_code

\* main, lines 135-136: `except Exception as e` of the loop body
UrlFailed(e) ==
    /\ IsException(e)
    /\ stdout' = Append(stdout, ErrorLine(url, e))
    /\ pc' = "Loop"
    /\ UNCHANGED <<idx, exit_code>>

\* main, lines 131-134: summarize_website returned
UrlSummarized(summary) ==
    /\ stdout' = stdout \o SummaryLines(url, summary)
    /\ pc' = "Loop"
    /\ UNCHANGED <<idx, exit_code>>

\* main, lines 128-131 and summarize_website, lines 81-82: take the next URL,
\* print the separator and the fetch notice, call fetch_website_contents
LoopNext ==
    /\ pc = "Loop"
    /\ ~LoopExhausted
    /\ idx' = idx + 1
    /\ stdout' = stdout \o << Line("separator"),
                              [line |-> "fetching", url |-> IterItem(urls_to_summarize, idx + 1)] >>
    /\ fetch_calls' = Append(fetch_calls,
                             [pos |-> idx + 1, url |-> IterItem(urls_to_summarize, idx + 1)])
    /\ pc' = "Fetching"
    /\ UNCHANGED <<sys_argv, urls_to_summarize, client, website_content, exit_code,
                   clients_made, connect_results, fetch_results, requests, infer_results>>

\* summarize_website, lines 82-90: the fetch returned c; print the notice,
\* build the messages, call client.chat.completions.create
FetchReturns ==
    /\ pc = "Fetching"
    /\ \E c \in Contents :
        /\ website_content' = PyStr(c)
        /\ fetch_results' = Append(fetch_results, [pos |-> idx, ok |-> TRUE, value |-> c])
        /\ requests' = Append(requests, [pos |-> idx, client |-> client, model |-> MODEL,
                                         messages |-> create_messages(c)])
    /\ stdout' = Append(stdout, [line |-> "generating", model |-> MODEL])
    /\ pc' = "Inferring"
    /\ UNCHANGED <<sys_argv, urls_to_summarize, client, idx, exit_code, clients_made, connect_results,
                   fetch_calls, infer_results>>

\* summarize_website, line 82 and main, lines 135-136: the fetch raised
FetchRaises ==
    /\ pc = "Fetching"
    /\ \E e \in FetchErrors \cup Interrupts :
        /\ fetch_results' = Append(fetch_results, [pos |-> idx, ok |-> FALSE, exc |-> e])
        /\ UrlFailed(e) \/ Uncaught(e)
    /\ UNCHANGED <<sys_argv, urls_to_summarize, client, website_content, clients_made, connect_results,
                   fetch_calls, requests, infer_results>>

\* summarize_website, lines 87-92 and main, lines 131-136: the call returned a
\* response; choices[0] raises IndexError on an empty list
InferReturns ==
    /\ pc = "Inferring"
    /\ \E r \in Responses :
        /\ infer_results' = Append(infer_results, [pos |-> idx, ok |-> TRUE, response |-> r])
        /\ IF Len(r.choices) = 0
           THEN UrlFailed(PyExc("IndexError", "list index out of range"))
           ELSE UrlSummarized(FirstChoiceContent(r))
    /\ UNCHANGED <<sys_argv, urls_to_summarize, client, website_content, clients_made, connect_results,
                   fetch_calls, fetch_results, requests>>

\* summarize_website, lines 87-90 and main, lines 135-136: the call raised
InferRaises ==
    /\ pc = "Inferring"
    /\ \E e \in InferErrors \cup Interrupts :
        /\ infer_results' = Append(infer_results, [pos |-> idx, ok |-> FALSE, exc |-> e])
        /\ UrlFailed(e) \/ Uncaught(e)
    /\ UNCHANGED <<sys_argv, urls_to_summarize, client, website_content, clients_made, connect_results,
                   fetch_calls, fetch_results, requests>>

\* main, lines 138-146: the loop is over; print the closing lines and return
Finish ==
    /\ pc = "Loop"
    /\ LoopExhausted
    /\ stdout' = stdout \o ClosingLines
    /\ exit_code' = <<0>>
    /\ pc' = "Done"
    /\ UNCHANGED <<sys_argv, urls_to_summarize, client, idx, website_content,
                   clients_made, connect_results, fetch_calls, fetch_results, requests, infer_results>>

Next ==
    \/ ResolveArgs
    \/ ConnectOk
    \/ ConnectRaises
    \/ LoopNext
    \/ FetchReturns
    \/ FetchRaises
    \/ InferReturns
    \/ InferRaises
    \/ Finish

Spec == Init /\ [][Next]_vars

\* every blocking call returns or raises, and the single thread keeps running
FairSpec == Spec /\ WF_vars(Next)

----------------------------------------------------------------------------
(* Vocabulary of the properties: what happened at a position of the URL    *)
(* list, read from the call logs and from the printed lines.               *)

Positions == 1 .. Len(urls_to_summarize)

\* the command-line arguments, without the program name
Args == Tail(sys_argv)

Count(seq, Test(_)) == Len(SelectSeq(seq, Test))

FetchCallsAt(p) == Count(fetch_calls, LAMBDA c : c.pos = p)

RequestsAt(p) == Count(requests, LAMBDA r : r.pos = p)

FetchOkAt(p) == \E k \in DOMAIN fetch_results :
                    fetch_results[k].pos = p /\ fetch_results[k].ok

FetchRaisedAt(p) == \E k \in DOMAIN fetch_results :
                        fetch_results[k].pos = p /\ ~fetch_results[k].ok

InferReturnedAt(p) == \E k \in DOMAIN infer_results :
                          infer_results[k].pos = p /\ infer_results[k].ok

InferRaisedAt(p) == \E k \in DOMAIN infer_results :
                        infer_results[k].pos = p /\ ~infer_results[k].ok

\* the response returned at p has no first choice
NoChoiceAt(p) == \E k \in DOMAIN infer_results :
                     /\ infer_results[k].pos = p
                     /\ infer_results[k].ok
                     /\ Len(infer_results[k].response.choices) = 0

\* the first choice of the response returned at p carries no content
NoContentAt(p) == \E k \in DOMAIN infer_results :
                      /\ infer_results[k].pos = p
                      /\ infer_results[k].ok
                      /\ Len(infer_results[k].response.choices) > 0
                      /\ infer_results[k].response.choices[1].message.content = PyNone

\* a call made for position p raised
RaisedAt(p) == FetchRaisedAt(p) \/ InferRaisedAt(p)

\* a call made for position p raised an instance of Exception
ExceptionRaisedAt(p) ==
    \/ \E k \in DOMAIN fetch_results :
        fetch_results[k].pos = p /\ ~fetch_results[k].ok /\ IsException(fetch_results[k].exc)
    \/ \E k \in DOMAIN infer_results :
        infer_results[k].pos = p /\ ~infer_results[k].ok /\ IsException(infer_results[k].exc)

\* a call made for position p raised something `except Exception` lets through
InterruptedAt(p) == RaisedAt(p) /\ ~ExceptionRaisedAt(p)

\* the call of create_ollama_client raised
ConnectRaisedAny == \E k \in DOMAIN connect_results : ~connect_results[k].ok

\* the call of create_ollama_client raised an instance of Exception
ConnectRaisedException ==
    \E k \in DOMAIN connect_results :
        ~connect_results[k].ok /\ IsException(connect_results[k].exc)

\* the process has ended
Ended == pc \in {"Done", "Exited", "Aborted"}

\* both calls returned and the response has a first choice
SucceededAt(p) == FetchOkAt(p) /\ InferReturnedAt(p) /\ ~NoChoiceAt(p)

\* the iteration of position p is over
CompletedAt(p) == p < idx \/ (p = idx /\ pc \in {"Loop", "Done"})

IsSummary(l) == l.line = "summary_of"

IsError(l) == l.line = "error_summarizing"

IsOutcome(l) == IsSummary(l) \/ IsError(l)

\* the per-URL outcome lines, in the order printed
OutcomeLines == SelectSeq(stdout, IsOutcome)

SummariesOf(u) == Count(stdout, LAMBDA l : IsSummary(l) /\ l.url = u)

ErrorsOf(u) == Count(stdout, LAMBDA l : IsError(l) /\ l.url = u)

ClosingPrinted == Count(stdout, LAMBDA l : l.line = "done")

----------------------------------------------------------------------------
\* C1 as stated: when a call of the K-th URL raises and every other URL
\* succeeds, the ended run has made one attempt per URL, printed exactly one
\* error line, which names the K-th URL, and its exit code is 0.
C1_Original ==
    Ended =>
        \A K \in Positions :
            (RaisedAt(K) /\ \A p \in Positions \ {K} : SucceededAt(p)) =>
                /\ Len(fetch_calls) = Len(urls_to_summarize)
                /\ Count(stdout, IsError) = 1
                /\ ErrorsOf(urls_to_summarize[K]) = 1
                /\ exit_code = <<0>>

\* C1 amended: when a call of the K-th URL raises an instance of Exception and
\* every other URL succeeds, the finished run has made one attempt per URL,
\* printed exactly one error line, which names the K-th URL, printed one
\* summary for each other URL, and ended with exit code 0; a run in which every
\* raise was an instance of Exception never ends with 1 once it started on a URL.
C1_OneFailureIsolated ==
    /\ \A K \in Positions :
        (ExceptionRaisedAt(K) /\ \A p \in Positions \ {K} : SucceededAt(p)) =>
            /\ pc \in {"Loop", "Done"}
            /\ Len(fetch_calls) = Len(urls_to_summarize)
            /\ \A p \in Positions : FetchCallsAt(p) = 1
            /\ Count(stdout, IsError) = 1
            /\ ErrorsOf(urls_to_summarize[K]) = 1
            /\ SummariesOf(urls_to_summarize[K]) = 0
            /\ \A p \in Positions \ {K} : SummariesOf(urls_to_summarize[p]) = 1
            /\ exit_code = (IF pc = "Done" THEN <<0>> ELSE <<>>)
    /\ (fetch_calls # <<>> /\ \A p \in Positions : ~InterruptedAt(p)) =>
        exit_code # <<1>> /\ pc \notin {"Exited", "Aborted"}

C1_Witness ==
    /\ pc = "Done"
    /\ Len(urls_to_summarize) = 3
    /\ InferRaisedAt(2)
    /\ SucceededAt(1)
    /\ SucceededAt(3)
    /\ exit_code = <<0>>

\* C2 as stated: when the construction of the client raised, the process has
\* ended with status 1 and nothing was attempted.
C2_Original ==
    ConnectRaisedAny =>
        /\ exit_code = <<1>>
        /\ fetch_calls = <<>>
        /\ requests = <<>>
        /\ Len(OutcomeLines) = 0
        /\ ClosingPrinted = 0

\* the lines of the except clause of the construction were printed
ConnectErrorPrinted == Count(stdout, LAMBDA l : l.line = "error_connecting")

\* C2 amended: when the construction of the client raised, the run has ended
\* and nothing was attempted: no fetch, no chat-completion call, no summary or
\* error line of a URL, no closing lines. When what it raised is an instance of
\* Exception the remediation message was printed once and the process ended
\* with status 1; when it is not, the run ended without the remediation
\* message and not through the sys.exit(1) of the except clause.
C2_ConnectFailureIsFatal ==
    /\ ConnectRaisedAny =>
        /\ Ended
        /\ Len(connect_results) = 1
        /\ client = PyNone
        /\ fetch_calls = <<>>
        /\ fetch_results = <<>>
        /\ requests = <<>>
        /\ infer_results = <<>>
        /\ Len(OutcomeLines) = 0
        /\ ClosingPrinted = 0
    /\ ConnectRaisedException =>
        /\ pc = "Exited"
        /\ exit_code = <<1>>
        /\ ConnectErrorPrinted = 1
    /\ (ConnectRaisedAny /\ ~ConnectRaisedException) =>
        /\ pc = "Aborted"
        /\ ConnectErrorPrinted = 0

C2_Witness ==
    /\ pc = "Exited"
    /\ exit_code = <<1>>
    /\ ConnectRaisedException
    /\ Len(urls_to_summarize) = 3

\* C3 as stated: the list is the single argument when exactly one argument is
\* present, and the default list for every other number of arguments.
C3_Original ==
    pc # "Init" =>
        urls_to_summarize = IF Len(Args) = 1 THEN <<Args[1]>> ELSE default_urls

\* C3 amended: the list is the first argument when at least one argument is
\* present (further arguments are ignored), and the three default URLs in their
\* declared order when there is none; with an argument the only attempt is for
\* the first argument.
C3_FirstArgumentOrDefaults ==
    /\ pc # "Init" =>
        urls_to_summarize = IF Len(Args) >= 1 THEN <<Args[1]>> ELSE default_urls
    /\ Len(Args) >= 1 =>
        /\ Len(fetch_calls) <= 1
        /\ \A k \in DOMAIN fetch_calls : fetch_calls[k].url = Args[1]
        /\ pc = "Done" => Len(fetch_calls) = 1
    /\ (Len(Args) = 0 /\ pc = "Done") =>
        /\ Len(fetch_calls) = 3
        /\ \A k \in 1 .. 3 : fetch_calls[k].url = default_urls[k]
    /\ Len(default_urls) = 3

C3_Witness ==
    /\ pc = "Done"
    /\ Len(Args) = 2
    /\ Args[1] # Args[2]
    /\ Len(fetch_calls) = 1
    /\ fetch_calls[1].url = Args[1]

\* the response returned for position p
ResponseAt(p) ==
    (CHOOSE r \in {infer_results[k] : k \in DOMAIN infer_results} : r.pos = p /\ r.ok).response

\* the content the fetch returned for position p
FetchedAt(p) ==
    (CHOOSE r \in {fetch_results[k] : k \in DOMAIN fetch_results} : r.pos = p /\ r.ok).value

\* the request sent for position p
RequestAt(p) == CHOOSE r \in {requests[k] : k \in DOMAIN requests} : r.pos = p

\* the iteration of every position before j is over, with both of its calls
\* answered and its outcome printed
AllBeforeSettled(j) ==
    \A i \in 1 .. (j - 1) :
        /\ FetchCallsAt(i) = 1
        /\ FetchOkAt(i) \/ FetchRaisedAt(i)
        /\ RequestsAt(i) > 0 => InferReturnedAt(i) \/ InferRaisedAt(i)
        /\ SummariesOf(urls_to_summarize[i]) + ErrorsOf(urls_to_summarize[i]) = 1

\* the printed outcomes so far name the first URLs of the list, in order
OutcomesInListOrder ==
    /\ Len(OutcomeLines) <= Len(urls_to_summarize)
    /\ \A k \in DOMAIN OutcomeLines : OutcomeLines[k].url = urls_to_summarize[k]
    /\ \A k \in DOMAIN fetch_calls :
        fetch_calls[k].pos = k /\ fetch_calls[k].url = urls_to_summarize[k]
    /\ pc = "Done" => Len(OutcomeLines) = Len(urls_to_summarize)

\* a step that starts a fetch starts the fetch of the next position of the
\* list, and only when every earlier position is settled
FetchStartsAfterEarlierSettled ==
    fetch_calls' # fetch_calls =>
        /\ Len(fetch_calls') = Len(fetch_calls) + 1
        /\ fetch_calls'[Len(fetch_calls')].pos = Len(fetch_calls) + 1
        /\ AllBeforeSettled(Len(fetch_calls) + 1)
        /\ Len(OutcomeLines) = Len(fetch_calls)

\* C4: URLs are processed one at a time in the order of the list: the fetch of
\* a URL starts only after the fetch, the inference call and the printed
\* outcome of every earlier URL, and the printed outcomes follow the list's
\* order whatever fails.
C4_SequentialInOrder ==
    /\ []OutcomesInListOrder
    /\ [][FetchStartsAfterEarlierSettled]_vars

C4_Witness ==
    /\ pc = "Done"
    /\ Len(urls_to_summarize) = 3
    /\ FetchRaisedAt(1)
    /\ SucceededAt(2)
    /\ InferRaisedAt(3)
    /\ Len(OutcomeLines) = 3
    /\ IsError(OutcomeLines[1]) /\ IsSummary(OutcomeLines[2]) /\ IsError(OutcomeLines[3])

\* C5: every message list built from a content string, the empty string
\* included, has exactly two messages: a system message holding SYSTEM_PROMPT,
\* then a user message whose content is USER_PROMPT_PREFIX followed by the
\* content unchanged; equal contents give equal message lists.
C5_TwoMessages ==
    /\ \A k \in DOMAIN requests :
        LET m == requests[k].messages
            c == FetchedAt(requests[k].pos)
            n == Len(USER_PROMPT_PREFIX)
        IN  /\ Len(m) = 2
            /\ DOMAIN m[1] = {"role", "content"}
            /\ DOMAIN m[2] = {"role", "content"}
            /\ m[1].role = "system"
            /\ m[1].content = SYSTEM_PROMPT
            /\ m[2].role = "user"
            /\ Len(m[2].content) = n + Len(c)
            /\ SubSeq(m[2].content, 1, n) = USER_PROMPT_PREFIX
            /\ SubSeq(m[2].content, n + 1, n + Len(c)) = c
    /\ \A k1, k2 \in DOMAIN requests :
        FetchedAt(requests[k1].pos) = FetchedAt(requests[k2].pos)
            => requests[k1].messages = requests[k2].messages

C5_Witness ==
    /\ \E k \in DOMAIN requests : FetchedAt(requests[k].pos) = ""
    /\ \E k \in DOMAIN requests : FetchedAt(requests[k].pos) = "Hello world"

\* the text printed under the summary header of URL u
SummaryTextOf(u) ==
    LET k == CHOOSE j \in DOMAIN stdout : IsSummary(stdout[j]) /\ stdout[j].url = u
    IN  stdout[k + 1]

\* C6: for every URL whose fetch and inference call succeeded (the response has
\* a first choice carrying content), the printed summary is the content of the
\* first choice of the response to that URL's own request, and that request
\* carries MODEL and the messages built from the content fetched for that URL.
C6_SummaryIsOwnFirstChoice ==
    \A p \in Positions :
        (SucceededAt(p) /\ ~NoContentAt(p) /\ CompletedAt(p)) =>
            /\ SummariesOf(urls_to_summarize[p]) = 1
            /\ SummaryTextOf(urls_to_summarize[p]).line = "summary_text"
            /\ SummaryTextOf(urls_to_summarize[p]).text
                   = ResponseAt(p).choices[1].message.content.value
            /\ RequestsAt(p) = 1
            /\ RequestAt(p).model = MODEL
            /\ Len(RequestAt(p).messages) = 2
            /\ RequestAt(p).messages[2].content = USER_PROMPT_PREFIX \o FetchedAt(p)
            /\ \E k \in DOMAIN fetch_calls :
                fetch_calls[k].pos = p /\ fetch_calls[k].url = urls_to_summarize[p]

C6_Witness ==
    /\ pc = "Done"
    /\ Len(urls_to_summarize) = 3
    /\ SucceededAt(1) /\ FetchedAt(1) = "Hello world"
    /\ Len(ResponseAt(1).choices) = 2
    /\ RaisedAt(2)
    /\ SucceededAt(3) /\ FetchedAt(3) = ""
    /\ Len(ResponseAt(3).choices) = 1 /\ ~NoContentAt(3)

\* the inference call of position p failed: it raised an error, or its response is
\* malformed (no choice, or a first choice without content)
InferFailedAt(p) ==
    \/ \E k \in DOMAIN infer_results :
        infer_results[k].pos = p /\ ~infer_results[k].ok /\ IsException(infer_results[k].exc)
    \/ NoChoiceAt(p)
    \/ NoContentAt(p)

\* C7: whenever the inference call of a URL failed, one error line names that
\* URL, no summary of that URL is printed, and the run goes on.
C7_InferFailureReported ==
    \A p \in Positions :
        (InferFailedAt(p) /\ CompletedAt(p)) =>
            /\ ErrorsOf(urls_to_summarize[p]) = 1
            /\ SummariesOf(urls_to_summarize[p]) = 0
            /\ pc \notin {"Exited", "Aborted"} \/ idx > p
            /\ \A k \in DOMAIN infer_results :
                (infer_results[k].pos = p /\ ~infer_results[k].ok) =>
                    \E j \in DOMAIN stdout :
                        /\ IsError(stdout[j])
                        /\ stdout[j].url = urls_to_summarize[p]
                        /\ stdout[j].cause = infer_results[k].exc.msg

\* C8: every position of the URL list causes exactly one fetch call, for its
\* own URL, and at most one chat-completion request, whatever fails.
C8_NoRetries ==
    /\ \A p \in Positions :
        /\ FetchCallsAt(p) = (IF p <= idx THEN 1 ELSE 0)
        /\ RequestsAt(p) <= 1
        /\ RequestsAt(p) = 1 => FetchOkAt(p)
    /\ Len(fetch_calls) <= Len(urls_to_summarize)
    /\ Len(requests) <= Len(fetch_calls)
    /\ \A k \in DOMAIN fetch_calls : fetch_calls[k].url = urls_to_summarize[fetch_calls[k].pos]
    /\ pc = "Done" => \A p \in Positions : FetchCallsAt(p) = 1

C8_Witness ==
    /\ pc = "Done"
    /\ Len(urls_to_summarize) = 3
    /\ FetchRaisedAt(1)
    /\ InferRaisedAt(2)
    /\ NoChoiceAt(3)
    /\ Len(fetch_calls) = 3
    /\ Len(requests) = 2

\* the Runner's state, read from the position in main()
Phase ==
    CASE pc = "Init" -> "Init"
      [] pc = "Connecting" -> "Connecting"
      [] pc \in {"Loop", "Fetching", "Inferring"} -> "Processing"
      [] pc = "Done" -> "Done"
      [] pc = "Exited" -> "Exit1"
      [] pc = "Aborted" -> "Aborted"

PhaseMoves == {<<"Init", "Connecting">>, <<"Connecting", "Processing">>,
               <<"Connecting", "Exit1">>, <<"Processing", "Done">>}

\* the moves of a call that raises past the except clauses
AbortMoves == {<<"Connecting", "Aborted">>, <<"Processing", "Aborted">>}

\* the last n lines printed
LastLines(n) == SubSeq(stdout, Len(stdout) + 1 - n, Len(stdout))

ClientInvariant ==
    /\ clients_made <= 1
    /\ clients_made = 1 => Phase # "Init"
    /\ Phase \in {"Processing", "Done"} =>
        /\ clients_made = 1
        /\ client # PyNone
    /\ \A k \in DOMAIN requests : requests[k].client = client /\ client # PyNone
    /\ fetch_calls # <<>> => clients_made = 1
    /\ ClosingPrinted <= 1
    /\ pc # "Done" => ClosingPrinted = 0
    /\ pc = "Done" =>
        /\ exit_code = <<0>>
        /\ ClosingPrinted = 1
        /\ Len(stdout) >= Len(ClosingLines)
        /\ LastLines(Len(ClosingLines)) = ClosingLines
        /\ Len(fetch_calls) = Len(urls_to_summarize)
        /\ \A p \in Positions :
            /\ FetchCallsAt(p) = 1
            /\ SummariesOf(urls_to_summarize[p]) + ErrorsOf(urls_to_summarize[p]) = 1
    /\ pc = "Exited" =>
        /\ exit_code = <<1>>
        /\ fetch_calls = <<>>
        /\ client = PyNone
    /\ ~Ended => exit_code = <<>>

\* as stated, a run ends only with exit 1 from Connecting or with every URL attempted
RunnerInvariant ==
    /\ ClientInvariant
    /\ Ended => pc \in {"Done", "Exited"}

\* the last call made raised something that is not an instance of Exception
LastCallInterrupted ==
    \/ /\ idx = 0
       /\ connect_results # <<>>
       /\ ~connect_results[Len(connect_results)].ok
       /\ ~IsException(connect_results[Len(connect_results)].exc)
    \/ /\ idx >= 1
       /\ InterruptedAt(idx)

\* a run is aborted exactly when its last call raised something that is not an
\* instance of Exception; nothing is printed for that call, neither the
\* remediation message, nor an outcome of the URL in progress, nor the closing
\* lines
AbortedInvariant ==
    /\ pc = "Aborted" <=> LastCallInterrupted
    /\ pc = "Aborted" =>
        /\ exit_code # <<>>
        /\ ClosingPrinted = 0
        /\ ConnectErrorPrinted = 0
        /\ idx >= 1 =>
            SummariesOf(urls_to_summarize[idx]) + ErrorsOf(urls_to_summarize[idx]) = 0

\* C9 as stated: the Runner moves only Init -> Connecting -> Processing -> Done
\* (or to exit 1 from Connecting) and always ends, given that every blocking
\* call returns or raises; every run ends with exit 1 from Connecting or with
\* every URL attempted and the closing lines printed once, last.
C9_Original ==
    /\ [][Phase' # Phase => <<Phase, Phase'>> \in PhaseMoves]_vars
    /\ []RunnerInvariant
    /\ <>Ended

\* C9 amended: the Runner moves only Init -> Connecting -> Processing -> Done,
\* to exit 1 from Connecting, or, when a call raises something that is not an
\* instance of Exception, from Connecting or Processing to an abort, in which
\* the process ends at once and prints nothing more; it always ends, given that
\* every blocking call returns or raises; the client is constructed once, after
\* the arguments are resolved and before the first fetch, and every request
\* uses it; a run that reaches Done has attempted every URL and printed the
\* closing lines once, last.
C9_RunnerStateMachine ==
    /\ [][Phase' # Phase => <<Phase, Phase'>> \in PhaseMoves \cup AbortMoves]_vars
    /\ [][(Phase # "Aborted" /\ Phase' = "Aborted") =>
            (LastCallInterrupted' /\ stdout' = stdout)]_vars
    /\ []ClientInvariant
    /\ []AbortedInvariant
    /\ <>Ended

C9_Witness ==
    /\ pc = "Done"
    /\ Len(urls_to_summarize) = 3
    /\ FetchRaisedAt(1)
    /\ InferRaisedAt(2)
    /\ NoChoiceAt(3)
    /\ Count(stdout, IsError) = 3
    /\ ClosingPrinted = 1

\* the inference call of position p succeeded: it returned a response whose
\* first choice carries content
InferSucceededAt(p) == InferReturnedAt(p) /\ ~InferFailedAt(p)

\* C10: every URL whose iteration ran to its end has exactly one printed
\* outcome, a summary or an error line, never both and never neither, and in a
\* run that reaches Done that is every URL; a failed fetch is followed by no
\* chat-completion request for that URL; a summary is printed for a URL only
\* if its fetch and its inference call both succeeded.
C10_ExactlyOneOutcome ==
    /\ \A p \in Positions :
        /\ SummariesOf(urls_to_summarize[p]) + ErrorsOf(urls_to_summarize[p]) <= 1
        /\ CompletedAt(p) =>
            SummariesOf(urls_to_summarize[p]) + ErrorsOf(urls_to_summarize[p]) = 1
        /\ FetchRaisedAt(p) => RequestsAt(p) = 0 /\ ~FetchOkAt(p)
        /\ SummariesOf(urls_to_summarize[p]) > 0 => FetchOkAt(p) /\ InferSucceededAt(p)
    /\ pc = "Done" => \A p \in Positions : CompletedAt(p)

====
